---- MODULE Spec2Model ----
(***************************************************************************)
(* Toyota CarState (selfdrive/car/toyota/carstate.py): the per-tick        *)
(* decoder update(), with the state it carries from tick to tick.          *)
(*                                                                         *)
(* Numbers are integers.  Angles are whole degrees, so the code's          *)
(* "abs(x) > 1e-3" is "x # 0".  Speeds returned by calculate_speed_limit   *)
(* are in units of 1/56250 m/s, in which both unit conversions are exact.  *)
(* Wheel speeds are in units of 1/8000 m/s.                                *)
(***************************************************************************)
EXTENDS Integers, Sequences, FiniteSets, TLC

(* ------------------------------------------------------------------ *)
(* Program constants                                                   *)
(* ------------------------------------------------------------------ *)
TEMP_STEER_FAULTS == {0, 9, 11, 21, 25}
PERM_STEER_FAULTS == {3, 17}

ZSS_THRESHOLD == 4
ZSS_THRESHOLD_COUNT == 10

\* envelope of the steering-angle-offset filter update
OFFSET_MAX_ANGLE == 90
OFFSET_MAX_RATE == 100

\* CV.KPH_TO_MS = 1/3.6 and CV.MPH_TO_MS = 0.44704, both times 56250
KPH_TO_MS == 15625
MPH_TO_MS == 25146

\* the value dict.get() gives for a field neither RSA message carries
None == -1

(* ------------------------------------------------------------------ *)
(* Bounds of the model                                                 *)
(* ------------------------------------------------------------------ *)
\* drive_helpers.CRUISE_LONG_PRESS (50 ticks in the car), scaled down
CRUISE_LONG_PRESS == 2
\* ticks a hold may go on after the press counter passed 5 * CRUISE_LONG_PRESS
HoldSlack == 2
\* denominator of the offset filter's alpha = dt / (rc + dt), scaled down
FilterDen == 2
\* largest count the per-edge recompute tally is kept to
MaxTally == 2

MaxHold == 5 * CRUISE_LONG_PRESS + HoldSlack

Abs(x) == IF x < 0 THEN -x ELSE x

\* integer division that truncates toward zero
Quot(a, b) == IF a >= 0 THEN a \div b ELSE -((-a) \div b)

Min(a, b) == IF a < b THEN a ELSE b

VARIABLES
  CP,                        \* car parameters, fixed for the session
  fv,                        \* frogpilot_variables, fixed for the session
  cp,                        \* the frame (main and camera bus) the last tick read
  accurate_steer_angle_seen,
  angle_offset,              \* FirstOrderFilter: [x, initialized]
  low_speed_lockout,
  acc_type,
  lkas_hud,
  profile_restored,
  zss_compute,
  zss_cruise_active_last,
  zss_angle_offset,
  zss_threshold_count,
  traffic_signals,
  distance_pressed_counter,
  distance_previously_pressed,
  lkas_previously_pressed,
  personality_profile,
  previous_personality_profile,
  distance_button,
  car_speed_limit,           \* SpeedLimitController.car_speed_limit
  ret,                       \* the snapshot the last tick returned
  status,                    \* "init", "ok", or the error that ended the session
  events,                    \* the calls into self.fpf the last tick made, in order
  probe,                     \* what the last tick did in the ZSS block
  hist                       \* tallies kept over several ticks

vars == <<CP, fv, cp, accurate_steer_angle_seen, angle_offset, low_speed_lockout,
          acc_type, lkas_hud, profile_restored, zss_compute, zss_cruise_active_last,
          zss_angle_offset, zss_threshold_count, traffic_signals,
          distance_pressed_counter, distance_previously_pressed,
          lkas_previously_pressed, personality_profile,
          previous_personality_profile, distance_button, car_speed_limit,
          ret, status, events, probe, hist>>

(* ------------------------------------------------------------------ *)
(* Car parameters                                                      *)
(* ------------------------------------------------------------------ *)
\* membership of carFingerprint in the sets of values.py
Variants ==
  { [tss2 |-> FALSE, radar_acc |-> FALSE, unsupported_dsu |-> FALSE, prius_v |-> FALSE],
    [tss2 |-> FALSE, radar_acc |-> FALSE, unsupported_dsu |-> FALSE, prius_v |-> TRUE],
    [tss2 |-> FALSE, radar_acc |-> FALSE, unsupported_dsu |-> TRUE,  prius_v |-> FALSE],
    [tss2 |-> TRUE,  radar_acc |-> FALSE, unsupported_dsu |-> FALSE, prius_v |-> FALSE],
    [tss2 |-> TRUE,  radar_acc |-> TRUE,  unsupported_dsu |-> FALSE, prius_v |-> FALSE] }

MakeCP(v, sct, dr, sdsu, rcf, zss) ==
  [tss2 |-> v.tss2, radar_acc |-> v.radar_acc, unsupported_dsu |-> v.unsupported_dsu,
   prius_v |-> v.prius_v, steerControlType |-> sct,
   DISABLE_RADAR |-> dr, SMART_DSU |-> sdsu, RADAR_CAN_FILTER |-> rcf, ZSS |-> zss]

MakeFV(lkas, cem, dist, traffic, wheel, mph) ==
  [experimental_mode_via_lkas |-> lkas, conditional_experimental_mode |-> cem,
   experimental_mode_via_distance |-> dist, traffic_mode |-> traffic,
   personalities_via_wheel |-> wheel, force_mph_dashboard |-> mph]

\* carFingerprint in (TSS2_CAR - RADAR_ACC_CAR)
CameraAcc(c) == c.tss2 /\ ~c.radar_acc

(* ------------------------------------------------------------------ *)
(* The frame of one tick                                               *)
(* ------------------------------------------------------------------ *)
SIGNS == {"TSGN1", "SPDVAL1", "SPLSGN1", "TSGN2", "SPLSGN2", "TSGN3", "SPLSGN3",
          "TSGN4", "SPLSGN4"}

\* the fields each of the two sign messages carries in a full frame
RSA1_SIGNS == {"TSGN1", "SPDVAL1", "SPLSGN1", "TSGN2", "SPLSGN2"}
RSA2_SIGNS == {"TSGN3", "SPLSGN3", "TSGN4", "SPLSGN4"}

\* a frame in which nothing happens
Quiet ==
  [WHEEL_SPEED_FL |-> 0, WHEEL_SPEED_FR |-> 0, WHEEL_SPEED_RL |-> 0, WHEEL_SPEED_RR |-> 0,
   STEER_ANGLE |-> 0, STEER_FRACTION |-> 0, STEER_RATE |-> 0,
   TORQUE_STEER_ANGLE |-> 0, STEER_ANGLE_INITIALIZING |-> 0, can_valid |-> TRUE,
   LKA_STATE |-> 1, LTA_STATE |-> 1,
   MAIN_ON |-> 0,
   ACC_TYPE |-> 1, CAM_ACC_TYPE |-> 1, LOW_SPEED_LOCKOUT |-> 0,
   DISTANCE |-> 0, FD_BUTTON |-> 0,
   LDA_ON_MESSAGE |-> 0, SET_ME_X02 |-> 0,
   DISTANCE_LINES |-> 1,
   personality_changed_via_ui |-> FALSE, current_personality |-> 0,
   ZORRO_STEER |-> 0,
   RSA1 |-> [s \in RSA1_SIGNS |-> 0],
   RSA2 |-> [s \in RSA2_SIGNS |-> 0]]

(* ------------------------------------------------------------------ *)
(* Kinematics                                                          *)
(* ------------------------------------------------------------------ *)
\* the 1e-3 m/s of line 92, in wheel speed units
STANDSTILL_EPS == 8

\* CarStateBase.get_wheel_speeds: the four readings, already unit-converted
get_wheel_speeds(fl, fr, rl, rr) == [fl |-> fl, fr |-> fr, rl |-> rl, rr |-> rr]

\* numpy_fast.mean: the sum over the length
mean(xs) == Quot(xs[1] + xs[2] + xs[3] + xs[4], Len(xs))

\* line 85
VEgoRaw(ws) == mean(<<ws.fl, ws.fr, ws.rl, ws.rr>>)

\* a speed of exactly 1e-3 taken for standstill
Standstill_Inclusive(vEgoRaw) == Abs(vEgoRaw) <= STANDSTILL_EPS

\* line 92
Standstill(vEgoRaw) == Abs(vEgoRaw) < STANDSTILL_EPS

(* ------------------------------------------------------------------ *)
(* Steering angle calibration                                          *)
(* ------------------------------------------------------------------ *)
\* FirstOrderFilter.update: the first sample initializes the filter, every
\* later one moves it by alpha times the difference
FirstOrderFilterUpdate(filt, x) ==
  IF filt.initialized
    THEN [x |-> filt.x + Quot(x - filt.x, FilterDen), initialized |-> TRUE]
    ELSE [x |-> x, initialized |-> TRUE]

RawSteeringAngle(f) == f.STEER_ANGLE + f.STEER_FRACTION

AccurateSteerAngleSeen(seen, f) ==
  seen \/ (Abs(f.TORQUE_STEER_ANGLE) > 0 /\ f.STEER_ANGLE_INITIALIZING = 0)

\* a rate of exactly 100 taken to be inside the envelope
AngleOffsetStep_RateInclusive(seen1, filt, f) ==
  IF /\ seen1
     /\ Abs(RawSteeringAngle(f)) < OFFSET_MAX_ANGLE
     /\ Abs(f.STEER_RATE) <= OFFSET_MAX_RATE
     /\ f.can_valid
    THEN FirstOrderFilterUpdate(filt, f.TORQUE_STEER_ANGLE - RawSteeringAngle(f))
    ELSE filt

\* lines 102-105
AngleOffsetStep(seen1, filt, f) ==
  IF /\ seen1
     /\ Abs(RawSteeringAngle(f)) < OFFSET_MAX_ANGLE
     /\ Abs(f.STEER_RATE) < OFFSET_MAX_RATE
     /\ f.can_valid
    THEN FirstOrderFilterUpdate(filt, f.TORQUE_STEER_ANGLE - RawSteeringAngle(f))
    ELSE filt

\* the bias applied as soon as an accurate angle was seen, whatever the filter says
SteerCalib_NoInitCheck(seen, filt, f) ==
  LET seen1 == AccurateSteerAngleSeen(seen, f)
      filt1 == AngleOffsetStep(seen1, filt, f)
  IN  [seen |-> seen1, filt |-> filt1,
       steeringAngleOffsetDeg |-> IF seen1 THEN filt1.x ELSE 0,
       steeringAngleDeg |-> IF seen1 THEN f.TORQUE_STEER_ANGLE - filt1.x
                                     ELSE RawSteeringAngle(f)]

\* lines 94-109: the new flag and filter, and the angle and offset reported
SteerCalib(seen, filt, f) ==
  LET seen1 == AccurateSteerAngleSeen(seen, f)
      filt1 == AngleOffsetStep(seen1, filt, f)
      bias  == seen1 /\ filt1.initialized
  IN  [seen |-> seen1, filt |-> filt1,
       steeringAngleOffsetDeg |-> IF bias THEN filt1.x ELSE 0,
       steeringAngleDeg |-> IF bias THEN f.TORQUE_STEER_ANGLE - filt1.x
                                    ELSE RawSteeringAngle(f)]

(* ------------------------------------------------------------------ *)
(* Steering faults                                                     *)
(* ------------------------------------------------------------------ *)
\* the LTA state looked at in torque mode too
SteerFaultTemporary_AnyMode(c, f) ==
  f.LKA_STATE \in TEMP_STEER_FAULTS \/ f.LTA_STATE \in TEMP_STEER_FAULTS

SteerFaultTemporary(c, f) ==
  \/ f.LKA_STATE \in TEMP_STEER_FAULTS
  \/ (c.steerControlType = "angle" /\ f.LTA_STATE \in TEMP_STEER_FAULTS)

SteerFaultPermanent(c, f) ==
  \/ f.LKA_STATE \in PERM_STEER_FAULTS
  \/ (c.steerControlType = "angle" /\ f.LTA_STATE \in PERM_STEER_FAULTS)

(* ------------------------------------------------------------------ *)
(* Cruise and ACC                                                      *)
(* ------------------------------------------------------------------ *)
\* DSU_CRUISE.MAIN_ON on the unsupported-DSU cars, PCM_CRUISE_2.MAIN_ON on the others
CruiseAvailable(f) == f.MAIN_ON # 0

\* the ACC type overwritten behind a smart DSU too
AccTypeStep_IgnoreSmartDsu(c, acc, f) ==
  IF c.tss2 /\ ~c.DISABLE_RADAR
    THEN (IF CameraAcc(c) THEN f.CAM_ACC_TYPE ELSE f.ACC_TYPE)
    ELSE acc

\* lines 149-153
AccTypeStep(c, acc, f) ==
  IF c.tss2 /\ ~c.DISABLE_RADAR /\ ~c.SMART_DSU
    THEN (IF CameraAcc(c) THEN f.CAM_ACC_TYPE ELSE f.ACC_TYPE)
    ELSE acc

\* the reading of LOW_SPEED_LOCKOUT is taken, given the ACC type of this tick
LockoutConclusive(c, acc1) ==
  (~c.tss2 /\ ~c.unsupported_dsu) \/ (c.tss2 /\ acc1 = 1)

\* the lockout signal taken on every car and ACC type
LowSpeedLockoutStep_Always(c, acc1, lockout, f) == f.LOW_SPEED_LOCKOUT = 2

LowSpeedLockoutStep(c, acc1, lockout, f) ==
  IF LockoutConclusive(c, acc1) THEN f.LOW_SPEED_LOCKOUT = 2 ELSE lockout

(* ------------------------------------------------------------------ *)
(* Buttons                                                             *)
(* ------------------------------------------------------------------ *)
\* lines 182-183
LkasHudStep(c, hud, f) ==
  IF ~c.prius_v
    THEN [LDA_ON_MESSAGE |-> f.LDA_ON_MESSAGE, SET_ME_X02 |-> f.SET_ME_X02]
    ELSE hud

\* lines 192-197: whether the local distance_pressed is assigned at all
DistanceBound(c) == CameraAcc(c) \/ (c.SMART_DSU /\ ~c.RADAR_CAN_FILTER)

DistancePressed(c, f) == IF CameraAcc(c) THEN f.DISTANCE # 0 ELSE f.FD_BUTTON # 0

\* line 202, on the fields of a HUD message
LkasPressed(hud) == hud.LDA_ON_MESSAGE = 1 \/ hud.SET_ME_X02 = 1

\* the previous-press flag dropped in the ticks in which the gate is closed
LkasStep_ForgetOnClose(c, v, avail, hud1, prev) ==
  LET gate    == v.experimental_mode_via_lkas /\ avail /\ ~c.prius_v
      pressed == hud1.LDA_ON_MESSAGE = 1 \/ hud1.SET_ME_X02 = 1
  IN  [prev   |-> gate /\ pressed,
       events |-> IF gate /\ pressed /\ ~prev
                    THEN (IF v.conditional_experimental_mode
                            THEN <<"lkas:update_cestatus_lkas">>
                            ELSE <<"lkas:update_experimental_mode">>)
                    ELSE << >>]

\* lines 200-210
LkasStep(c, v, avail, hud1, prev) ==
  LET gate    == v.experimental_mode_via_lkas /\ avail /\ ~c.prius_v
      pressed == hud1.LDA_ON_MESSAGE = 1 \/ hud1.SET_ME_X02 = 1
  IN  [prev   |-> IF gate THEN pressed ELSE prev,
       events |-> IF gate /\ pressed /\ ~prev
                    THEN (IF v.conditional_experimental_mode
                            THEN <<"lkas:update_cestatus_lkas">>
                            ELSE <<"lkas:update_experimental_mode">>)
                    ELSE << >>]

\* lines 215-222: the press counter after the press/release bookkeeping
PressCounter(pressed, prev, counter) ==
  IF pressed THEN counter + 1 ELSE IF prev THEN 0 ELSE counter

\* level-triggered: the toggle in every tick at or past the threshold
LongPressEvents_Level(v, counter1) ==
  IF counter1 >= CRUISE_LONG_PRESS /\ v.experimental_mode_via_distance
    THEN (IF v.conditional_experimental_mode
            THEN <<"distance:update_cestatus_distance">>
            ELSE <<"distance:update_experimental_mode">>)
    ELSE << >>

\* a press of exactly CRUISE_LONG_PRESS ticks taken for a short one
ShortRelease_Inclusive(pressed, prev, counter) ==
  ~pressed /\ prev /\ counter <= CRUISE_LONG_PRESS

\* line 218: the release of a press shorter than CRUISE_LONG_PRESS
ShortRelease(pressed, prev, counter) ==
  ~pressed /\ prev /\ counter < CRUISE_LONG_PRESS

\* lines 225-229
LongPressEvents(v, counter1) ==
  IF counter1 = CRUISE_LONG_PRESS /\ v.experimental_mode_via_distance
    THEN (IF v.conditional_experimental_mode
            THEN <<"distance:update_cestatus_distance">>
            ELSE <<"distance:update_experimental_mode">>)
    ELSE << >>

\* lines 232-239
TrafficModeEvents(v, counter1) ==
  IF counter1 = CRUISE_LONG_PRESS * 5 /\ v.traffic_mode
    THEN <<"traffic:update_traffic_mode">> \o
         (IF v.conditional_experimental_mode
            THEN <<"traffic:update_cestatus_distance">>
            ELSE <<"traffic:update_experimental_mode">>)
    ELSE << >>

\* the tracker run whether or not cruise is available
DistanceStep_Ungated(v, avail, pressed, st) ==
  LET counter1 == PressCounter(pressed, st.prev, st.counter)
      short    == ShortRelease(pressed, st.prev, st.counter)
  IN  [counter     |-> counter1,
       prev        |-> pressed,
       previous_pp |-> IF short THEN (st.pp + 2) % 3 ELSE st.previous_pp,
       restored    |-> IF short THEN FALSE ELSE st.restored,
       events      |-> (IF short THEN <<"distance:distance_button_function">> ELSE << >>)
                       \o LongPressEvents(v, counter1)
                       \o TrafficModeEvents(v, counter1)]

\* lines 213-241, for a tick in which distance_pressed is assigned
DistanceStep(v, avail, pressed, st) ==
  IF ~avail
    THEN [counter |-> st.counter, prev |-> st.prev, previous_pp |-> st.previous_pp,
          restored |-> st.restored, events |-> << >>]
    ELSE
      LET counter1 == PressCounter(pressed, st.prev, st.counter)
          short    == ShortRelease(pressed, st.prev, st.counter)
      IN  [counter     |-> counter1,
           prev        |-> pressed,
           previous_pp |-> IF short THEN (st.pp + 2) % 3 ELSE st.previous_pp,
           restored    |-> IF short THEN FALSE ELSE st.restored,
           events      |-> (IF short THEN <<"distance:distance_button_function">> ELSE << >>)
                           \o LongPressEvents(v, counter1)
                           \o TrafficModeEvents(v, counter1)]

\* lines 255-256 left out: a matching personality does not mark the profile restored
PersonalityStep_NoRestore(v, avail, f, st) ==
  IF ~(v.personalities_via_wheel /\ avail)
    THEN [pp |-> st.pp, previous_pp |-> st.previous_pp, restored |-> st.restored,
          button |-> st.button, events |-> << >>]
    ELSE
      LET ui        == f.personality_changed_via_ui
          restored1 == IF ui THEN FALSE ELSE st.restored
      IN  [pp |-> f.DISTANCE_LINES - 1,
           previous_pp |-> IF ui THEN f.current_personality ELSE st.previous_pp,
           restored |-> restored1,
           button |-> IF restored1 THEN st.button ELSE ~st.button,
           events |-> IF ui THEN <<"wheel:reset_personality_changed_param">> ELSE << >>]

\* lines 244-258
PersonalityStep(v, avail, f, st) ==
  IF ~(v.personalities_via_wheel /\ avail)
    THEN [pp |-> st.pp, previous_pp |-> st.previous_pp, restored |-> st.restored,
          button |-> st.button, events |-> << >>]
    ELSE
      LET pp1       == f.DISTANCE_LINES - 1
          ui        == f.personality_changed_via_ui
          previous1 == IF ui THEN f.current_personality ELSE st.previous_pp
          restored1 == IF pp1 = previous1 THEN TRUE
                       ELSE IF ui THEN FALSE ELSE st.restored
      IN  [pp |-> pp1, previous_pp |-> previous1, restored |-> restored1,
           button |-> IF restored1 THEN st.button ELSE ~st.button,
           events |-> IF ui THEN <<"wheel:reset_personality_changed_param">> ELSE << >>]

(* ------------------------------------------------------------------ *)
(* Traffic signs                                                       *)
(* ------------------------------------------------------------------ *)
\* dict.get(key, None)
Get(d, k) == IF k \in DOMAIN d THEN d[k] ELSE None

\* line 293: each field from RSA1, from RSA2 where RSA1 does not carry it
NewSignValues(f) ==
  [s \in SIGNS |-> IF s \in DOMAIN f.RSA1 THEN f.RSA1[s] ELSE Get(f.RSA2, s)]

\* dict.update(new_values)
DictUpdate(d, new) ==
  [s \in (DOMAIN d) \cup (DOMAIN new) |-> IF s \in DOMAIN new THEN new[s] ELSE d[s]]

\* an unchanged set of fields drops the cache instead of keeping it
update_traffic_signals_Drop(cache, f) ==
  IF NewSignValues(f) # cache THEN DictUpdate(cache, NewSignValues(f)) ELSE << >>

update_traffic_signals(cache, f) ==
  IF NewSignValues(f) # cache THEN DictUpdate(cache, NewSignValues(f)) ELSE cache

\* spdval1 * CV.X raises TypeError when spdval1 is None
SpeedLimitRaises(cache, v) ==
  LET tsgn1 == Get(cache, "TSGN1")
  IN  /\ (tsgn1 = 1 /\ ~v.force_mph_dashboard) \/ tsgn1 = 36 \/ v.force_mph_dashboard
      /\ Get(cache, "SPDVAL1") = None

\* the metric sign wins over the override
calculate_speed_limit_MetricFirst(cache, v) ==
  LET tsgn1   == Get(cache, "TSGN1")
      spdval1 == Get(cache, "SPDVAL1")
  IN  IF tsgn1 = 1 THEN spdval1 * KPH_TO_MS
      ELSE IF tsgn1 = 36 \/ v.force_mph_dashboard THEN spdval1 * MPH_TO_MS
      ELSE 0

\* SpeedLimitRaises with no override
SpeedLimitRaises_NoOverride(cache, v) ==
  Get(cache, "TSGN1") \in {1, 36} /\ Get(cache, "SPDVAL1") = None

\* no final else: every code but the metric one is read as mph
calculate_speed_limit_NoElse(cache, v) ==
  LET tsgn1   == Get(cache, "TSGN1")
      spdval1 == Get(cache, "SPDVAL1")
  IN  IF tsgn1 = 1 /\ ~v.force_mph_dashboard THEN spdval1 * KPH_TO_MS
      ELSE spdval1 * MPH_TO_MS

calculate_speed_limit(cache, v) ==
  LET tsgn1   == Get(cache, "TSGN1")
      spdval1 == Get(cache, "SPDVAL1")
  IN  IF tsgn1 = 1 /\ ~v.force_mph_dashboard THEN spdval1 * KPH_TO_MS
      ELSE IF tsgn1 = 36 \/ v.force_mph_dashboard THEN spdval1 * MPH_TO_MS
      ELSE 0

(* ------------------------------------------------------------------ *)
(* Secondary steering sensor (ZSS)                                     *)
(* ------------------------------------------------------------------ *)
\* the validator without its cap
ZssActive_NoCap(c, count) == c.ZSS

\* line 266
ZssActive(c, count) == c.ZSS /\ count < ZSS_THRESHOLD_COUNT

\* level-triggered instead of edge-triggered
ZssEdge_Level(avail, last) == avail

\* line 270
ZssEdge(avail, last) == avail /\ ~last

\* line 277
ZssCanCompute(angle, zorro) == Abs(angle) > 0 /\ Abs(zorro) > 0

\* the difference compared without its magnitude
ZssDiverges_Signed(angle, candidate) == angle - candidate > ZSS_THRESHOLD

\* line 283
ZssDiverges(angle, candidate) == Abs(angle - candidate) > ZSS_THRESHOLD

\* a tick in which the sensor agrees takes one fault back
ZssStep_Decay(c, avail, angle, f, st) ==
  IF ~ZssActive(c, st.count)
    THEN [compute |-> st.compute, last |-> st.last, offset |-> st.offset,
          count |-> st.count, angle |-> angle,
          ran |-> FALSE, edge |-> FALSE, recomputed |-> FALSE, applied |-> FALSE]
    ELSE
      LET zorro     == f.ZORRO_STEER
          edge      == ZssEdge(avail, st.last)
          compute1  == st.compute \/ edge
          count1    == IF edge THEN 0 ELSE st.count
          recompute == compute1 /\ ZssCanCompute(angle, zorro)
          offset1   == IF recompute THEN zorro - angle ELSE st.offset
          candidate == zorro - offset1
          diverges  == ZssDiverges(angle, candidate)
      IN  [compute |-> compute1 /\ ~recompute, last |-> avail, offset |-> offset1,
           count |-> IF diverges THEN count1 + 1
                     ELSE IF count1 > 0 THEN count1 - 1 ELSE 0,
           angle |-> IF diverges THEN angle ELSE candidate,
           ran |-> TRUE, edge |-> edge, recomputed |-> recompute, applied |-> ~diverges]

\* lines 266-287; angle is ret.steeringAngleDeg as the calibration left it
ZssStep(c, avail, angle, f, st) ==
  IF ~ZssActive(c, st.count)
    THEN [compute |-> st.compute, last |-> st.last, offset |-> st.offset,
          count |-> st.count, angle |-> angle,
          ran |-> FALSE, edge |-> FALSE, recomputed |-> FALSE, applied |-> FALSE]
    ELSE
      LET zorro     == f.ZORRO_STEER
          edge      == ZssEdge(avail, st.last)
          compute1  == st.compute \/ edge
          count1    == IF edge THEN 0 ELSE st.count
          recompute == compute1 /\ ZssCanCompute(angle, zorro)
          offset1   == IF recompute THEN zorro - angle ELSE st.offset
          candidate == zorro - offset1
          diverges  == ZssDiverges(angle, candidate)
      IN  [compute |-> compute1 /\ ~recompute, last |-> avail, offset |-> offset1,
           count |-> IF diverges THEN count1 + 1 ELSE count1,
           angle |-> IF diverges THEN angle ELSE candidate,
           ran |-> TRUE, edge |-> edge, recomputed |-> recompute, applied |-> ~diverges]

(* ------------------------------------------------------------------ *)
(* Tallies over several ticks                                          *)
(* ------------------------------------------------------------------ *)
ALT_MODE_EVENTS == {"distance:update_cestatus_distance", "distance:update_experimental_mode",
                    "traffic:update_cestatus_distance", "traffic:update_experimental_mode"}

CountIn(evs, S) == Cardinality({i \in DOMAIN evs : evs[i] \in S})

Tally(n) == Min(n, MaxTally)

LONG_PRESS_EVENTS == {"distance:update_cestatus_distance",
                      "distance:update_experimental_mode"}

IdleGesture == [phase |-> "idle", ticks |-> 0, toggles |-> 0, cycles |-> 0,
                traffic |-> 0, long |-> 0, clean |-> FALSE]

\* one hold of the distance button: the ticks it lasted and the events of the
\* distance block (lines 213-241) from its first held tick to its release tick;
\* clean: cruise was available in each of these ticks and the press counter was
\* zero when the hold began
GestureStep(g, pressed, avail, counter, evs) ==
  LET toggles == CountIn(evs, ALT_MODE_EVENTS)
      cycles  == CountIn(evs, {"distance:distance_button_function"})
      traffic == CountIn(evs, {"traffic:update_traffic_mode"})
      long    == CountIn(evs, LONG_PRESS_EVENTS)
  IN  IF pressed /\ g.phase = "held"
        THEN [phase |-> "held", ticks |-> Min(g.ticks + 1, MaxHold + 1),
              toggles |-> Tally(g.toggles + toggles), cycles |-> Tally(g.cycles + cycles),
              traffic |-> Tally(g.traffic + traffic), long |-> Tally(g.long + long),
              clean |-> g.clean /\ avail]
      ELSE IF pressed
        THEN [phase |-> "held", ticks |-> 1, toggles |-> toggles, cycles |-> cycles,
              traffic |-> traffic, long |-> long, clean |-> avail /\ counter = 0]
      ELSE IF g.phase = "held"
        THEN [phase |-> "released", ticks |-> g.ticks,
              toggles |-> Tally(g.toggles + toggles), cycles |-> Tally(g.cycles + cycles),
              traffic |-> Tally(g.traffic + traffic), long |-> Tally(g.long + long),
              clean |-> g.clean /\ avail]
      ELSE IdleGesture

LKAS_EVENTS == {"lkas:update_cestatus_lkas", "lkas:update_experimental_mode"}

IdleLkas == [held |-> FALSE, toggles |-> 0, lost |-> FALSE]

\* one hold of the lane-keep button, as the HUD message of each tick shows it: the
\* events of the detector (lines 200-210) since its first tick; lost: cruise was
\* not available in a tick of the hold after an event of the hold
LkasHoldStep(h, pressed, avail, evs) ==
  LET n == CountIn(evs, LKAS_EVENTS)
  IN  IF pressed /\ h.held
        THEN [held |-> TRUE, toggles |-> Tally(h.toggles + n),
              lost |-> h.lost \/ (~avail /\ h.toggles >= 1)]
      ELSE IF pressed
        THEN [held |-> TRUE, toggles |-> n, lost |-> FALSE]
      ELSE IdleLkas

\* offset recomputations (line 279) since the last tick in which cruise became
\* available, and the count the period before that one ended with (-1: none ended)
RecomputeStep(h, rising, recomputed) ==
  LET n == IF recomputed THEN 1 ELSE 0
  IN  IF rising
        THEN [recomputes |-> n, closed |-> IF h.edge_seen THEN h.recomputes ELSE -1,
              edge_seen |-> TRUE]
        ELSE [recomputes |-> Tally(h.recomputes + n), closed |-> h.closed,
              edge_seen |-> h.edge_seen]

(* ------------------------------------------------------------------ *)
(* update()                                                            *)
(* ------------------------------------------------------------------ *)
\* car.CarState.new_message()
NewMessage ==
  [vEgoRaw |-> 0, standstill |-> FALSE,
   steeringAngleDeg |-> 0, steeringRateDeg |-> 0, steeringAngleOffsetDeg |-> 0,
   steerFaultTemporary |-> FALSE, steerFaultPermanent |-> FALSE,
   cruiseState_available |-> FALSE]

NoProbe == [available |-> FALSE, rising_edge |-> FALSE, zss_ran |-> FALSE,
            zss_edge |-> FALSE, zss_recomputed |-> FALSE, zss_applied |-> FALSE,
            primary |-> 0, signs_changed |-> FALSE]

\* one tick; the result of each step of the tick is bound once, in source order
update(f) ==
  \E ws \in {get_wheel_speeds(f.WHEEL_SPEED_FL, f.WHEEL_SPEED_FR,
                              f.WHEEL_SPEED_RL, f.WHEEL_SPEED_RR)} :
  \E sc \in {SteerCalib(accurate_steer_angle_seen, angle_offset, f)} :
  \E avail \in {CruiseAvailable(f)} :
  \E acc1 \in {AccTypeStep(CP, acc_type, f)} :
  \E hud1 \in {LkasHudStep(CP, lkas_hud, f)} :
  \E lk \in {LkasStep(CP, fv, avail, hud1, lkas_previously_pressed)} :
  \E bound \in {DistanceBound(CP)} :
  \E pressed \in {bound /\ DistancePressed(CP, f)} :
  \E ds \in {DistanceStep(fv, avail, pressed,
                  [counter |-> distance_pressed_counter, prev |-> distance_previously_pressed,
                   previous_pp |-> previous_personality_profile,
                   restored |-> profile_restored, pp |-> personality_profile])} :
  \E ps \in {PersonalityStep(fv, avail, f,
                  [pp |-> personality_profile, previous_pp |-> ds.previous_pp,
                   restored |-> ds.restored, button |-> distance_button])} :
  \E ts1 \in {update_traffic_signals(traffic_signals, f)} :
  \E zs \in {ZssStep(CP, avail, sc.steeringAngleDeg, f,
                  [compute |-> zss_compute, last |-> zss_cruise_active_last,
                   offset |-> zss_angle_offset, count |-> zss_threshold_count])} :
  \E rising \in {avail /\ ~probe.available} :
  \* line 214 reads distance_pressed, which lines 192-197 did not assign
  \E unbound \in {avail /\ ~bound} :
  \* line 262: calculate_speed_limit multiplies a missing SPDVAL1
  \E typeerr \in {~unbound /\ SpeedLimitRaises(ts1, fv)} :
  /\ status \in {"init", "ok"}
  /\ ~(avail /\ pressed /\ distance_pressed_counter >= MaxHold)
  /\ cp' = f
  /\ UNCHANGED <<CP, fv>>
  \* lines 94-183, which every tick runs
  /\ accurate_steer_angle_seen' = sc.seen
  /\ angle_offset' = sc.filt
  /\ acc_type' = acc1
  /\ low_speed_lockout' = LowSpeedLockoutStep(CP, acc1, low_speed_lockout, f)
  /\ lkas_hud' = hud1
  /\ lkas_previously_pressed' = lk.prev
  \* lines 213-258
  /\ IF unbound
       THEN /\ UNCHANGED <<distance_pressed_counter, distance_previously_pressed,
                           personality_profile, previous_personality_profile,
                           profile_restored, distance_button>>
            /\ events' = lk.events
       ELSE /\ distance_pressed_counter' = ds.counter
            /\ distance_previously_pressed' = ds.prev
            /\ personality_profile' = ps.pp
            /\ previous_personality_profile' = ps.previous_pp
            /\ profile_restored' = ps.restored
            /\ distance_button' = ps.button
            /\ events' = lk.events \o ds.events \o ps.events
  \* lines 261-263
  /\ traffic_signals' = IF unbound THEN traffic_signals ELSE ts1
  /\ car_speed_limit' = IF unbound \/ typeerr THEN car_speed_limit
                        ELSE calculate_speed_limit(ts1, fv)
  \* lines 266-289
  /\ IF unbound \/ typeerr
       THEN /\ UNCHANGED <<zss_compute, zss_cruise_active_last, zss_angle_offset,
                           zss_threshold_count>>
            /\ ret' = NewMessage
            /\ status' = IF unbound THEN "UnboundLocalError" ELSE "TypeError"
            /\ probe' = [NoProbe EXCEPT !.available = avail, !.rising_edge = rising,
                                        !.primary = sc.steeringAngleDeg,
                                        !.signs_changed = ~unbound /\ ts1 # traffic_signals]
       ELSE /\ zss_compute' = zs.compute
            /\ zss_cruise_active_last' = zs.last
            /\ zss_angle_offset' = zs.offset
            /\ zss_threshold_count' = zs.count
            /\ ret' = [vEgoRaw |-> VEgoRaw(ws),
                       standstill |-> Standstill(VEgoRaw(ws)),
                       steeringAngleDeg |-> zs.angle,
                       steeringRateDeg |-> f.STEER_RATE,
                       steeringAngleOffsetDeg |-> sc.steeringAngleOffsetDeg,
                       steerFaultTemporary |-> SteerFaultTemporary(CP, f),
                       steerFaultPermanent |-> SteerFaultPermanent(CP, f),
                       cruiseState_available |-> avail]
            /\ status' = "ok"
            /\ probe' = [available |-> avail, rising_edge |-> rising, zss_ran |-> zs.ran,
                         zss_edge |-> zs.edge, zss_recomputed |-> zs.recomputed,
                         zss_applied |-> zs.applied, primary |-> sc.steeringAngleDeg,
                         signs_changed |-> ts1 # traffic_signals]
  /\ hist' = [zss |-> RecomputeStep(hist.zss, rising,
                                    ~(unbound \/ typeerr) /\ zs.recomputed),
              gesture |-> IF unbound THEN hist.gesture
                          ELSE GestureStep(hist.gesture, pressed, avail,
                                           distance_pressed_counter, ds.events),
              lkas |-> LkasHoldStep(hist.lkas, LkasPressed(f), avail, lk.events)]

(* ------------------------------------------------------------------ *)
(* Initial state: CarState.__init__                                    *)
(* ------------------------------------------------------------------ *)
InitWith(cps, fvs, pps) ==
  /\ CP \in cps
  /\ fv \in fvs
  /\ cp = Quiet
  /\ accurate_steer_angle_seen = FALSE
  /\ angle_offset = [x |-> 0, initialized |-> FALSE]
  /\ low_speed_lockout = FALSE
  /\ acc_type = 1
  /\ lkas_hud = [LDA_ON_MESSAGE |-> None, SET_ME_X02 |-> None]
  /\ profile_restored = FALSE
  /\ zss_compute = FALSE
  /\ zss_cruise_active_last = FALSE
  /\ zss_angle_offset = 0
  /\ zss_threshold_count = 0
  /\ traffic_signals = << >>
  /\ distance_pressed_counter = 0
  /\ distance_previously_pressed = FALSE
  /\ lkas_previously_pressed = FALSE
  /\ personality_profile \in pps
  /\ previous_personality_profile = personality_profile
  /\ distance_button = FALSE
  /\ car_speed_limit = 0
  /\ ret = NewMessage
  /\ status = "init"
  /\ events = << >>
  /\ probe = NoProbe
  /\ hist = [zss |-> [recomputes |-> 0, closed |-> -1, edge_seen |-> FALSE],
             gesture |-> IdleGesture, lkas |-> IdleLkas]

NoFV == MakeFV(FALSE, FALSE, FALSE, FALSE, FALSE, FALSE)

PRIUS      == [tss2 |-> FALSE, radar_acc |-> FALSE, unsupported_dsu |-> FALSE, prius_v |-> FALSE]
RAV4_TSS2  == [tss2 |-> TRUE,  radar_acc |-> FALSE, unsupported_dsu |-> FALSE, prius_v |-> FALSE]

(* ------------------------------------------------------------------ *)
(* Sessions on cars with and without the secondary sensor              *)
(* ------------------------------------------------------------------ *)
ZssCPs == {MakeCP(v, "torque", FALSE, FALSE, FALSE, z) : v \in {PRIUS, RAV4_TSS2}, z \in BOOLEAN}

ZssFrames ==
  {[Quiet EXCEPT !.STEER_ANGLE = a, !.ZORRO_STEER = z, !.MAIN_ON = m] :
     a \in {0, 2}, z \in {0, 3, 8}, m \in {0, 1}}

InitZss == InitWith(ZssCPs, {NoFV}, {0})
NextZss == \E f \in ZssFrames : update(f)
SpecZss == InitZss /\ [][NextZss]_vars

(* ------------------------------------------------------------------ *)
(* Sessions that exercise the steering-angle calibration               *)
(* ------------------------------------------------------------------ *)
SteerCPs == {MakeCP(RAV4_TSS2, "torque", FALSE, FALSE, FALSE, z) : z \in BOOLEAN}

SteerFrames ==
  {[Quiet EXCEPT !.STEER_ANGLE = a[1], !.STEER_FRACTION = a[2], !.STEER_RATE = r[1],
                 !.TORQUE_STEER_ANGLE = t[1], !.STEER_ANGLE_INITIALIZING = t[2],
                 !.can_valid = r[2], !.ZORRO_STEER = z] :
     a \in {<<0, 0>>, <<2, 1>>, <<89, 1>>},
     r \in {<<0, TRUE>>, <<100, TRUE>>, <<0, FALSE>>},
     t \in {<<0, 0>>, <<5, 1>>, <<5, 0>>}, z \in {0, 4}}

InitSteer == InitWith(SteerCPs, {NoFV}, {0})
NextSteer == \E f \in SteerFrames : update(f)
SpecSteer == InitSteer /\ [][NextSteer]_vars

(* ------------------------------------------------------------------ *)
(* Sessions that exercise the distance button, on every kind of car    *)
(* ------------------------------------------------------------------ *)
\* the button is wired on the camera-ACC car and behind an unfiltered smart DSU
ButtonCPs ==
  {MakeCP(RAV4_TSS2, "torque", FALSE, FALSE, FALSE, FALSE)}
    \cup {MakeCP(PRIUS, "torque", FALSE, sdsu, rcf, FALSE) :
            sdsu \in BOOLEAN, rcf \in BOOLEAN}

ButtonFVs ==
  {MakeFV(FALSE, cem, dist, traffic, FALSE, FALSE) :
     cem \in BOOLEAN, dist \in BOOLEAN, traffic \in BOOLEAN}

ButtonFrames ==
  {[Quiet EXCEPT !.MAIN_ON = m, !.DISTANCE = b[1], !.FD_BUTTON = b[2]] :
     m \in {0, 1}, b \in {<<0, 0>>, <<1, 0>>, <<0, 1>>}}

Init == InitWith(ButtonCPs, ButtonFVs, {0})
Next == \E f \in ButtonFrames : update(f)
Spec == Init /\ [][Next]_vars

(* ------------------------------------------------------------------ *)
(* Sessions that exercise the ACC type and the low-speed lockout       *)
(* ------------------------------------------------------------------ *)
AccCPs ==
  {MakeCP(v, "torque", dr, sdsu, FALSE, FALSE) :
     v \in Variants, dr \in BOOLEAN, sdsu \in BOOLEAN}

AccFrames ==
  {[Quiet EXCEPT !.ACC_TYPE = a, !.CAM_ACC_TYPE = c, !.LOW_SPEED_LOCKOUT = l] :
     a \in {1, 2}, c \in {1, 2}, l \in {0, 1, 2}}

InitAcc == InitWith(AccCPs, {NoFV}, {0})
NextAcc == \E f \in AccFrames : update(f)
SpecAcc == InitAcc /\ [][NextAcc]_vars

(* ------------------------------------------------------------------ *)
(* Sessions that exercise the steering fault codes                     *)
(* ------------------------------------------------------------------ *)
EPS_STATES == {0, 1, 3, 5, 9, 11, 17, 21, 25}

FaultCPs == {MakeCP(RAV4_TSS2, sct, FALSE, FALSE, FALSE, FALSE) : sct \in {"torque", "angle"}}

FaultFrames ==
  {[Quiet EXCEPT !.LKA_STATE = a, !.LTA_STATE = b] : a \in EPS_STATES, b \in EPS_STATES}

InitFault == InitWith(FaultCPs, {NoFV}, {0})
NextFault == \E f \in FaultFrames : update(f)
SpecFault == InitFault /\ [][NextFault]_vars

(* ------------------------------------------------------------------ *)
(* Sessions that exercise the traffic signs                            *)
(* ------------------------------------------------------------------ *)
SignFVs == {MakeFV(FALSE, FALSE, FALSE, FALSE, FALSE, mph) : mph \in BOOLEAN}

\* frames in which RSA1 carries all of its fields
FullSignFrames ==
  {[Quiet EXCEPT !.RSA1 = [Quiet.RSA1 EXCEPT !["TSGN1"] = t, !["SPDVAL1"] = v,
                                             !["TSGN2"] = u]] :
     t \in {0, 1, 2, 36}, v \in {0, 55, 100}, u \in {0, 1}}

\* frames in which neither message carries the field k
Without(f, k) ==
  [f EXCEPT !.RSA1 = [s \in (DOMAIN f.RSA1) \ {k} |-> f.RSA1[s]]]

SignFrames ==
  FullSignFrames
    \cup {Without(f, "TSGN1") : f \in {g \in FullSignFrames : g.RSA1["TSGN2"] = 0}}
    \cup {Without(f, "SPDVAL1") : f \in {g \in FullSignFrames : g.RSA1["TSGN2"] = 0}}

InitSigns == InitWith({MakeCP(RAV4_TSS2, "torque", FALSE, FALSE, FALSE, FALSE)}, SignFVs, {0})
NextSigns == \E f \in SignFrames : update(f)
SpecSigns == InitSigns /\ [][NextSigns]_vars

(* ------------------------------------------------------------------ *)
(* Sessions that exercise the wheel speeds                             *)
(* ------------------------------------------------------------------ *)
WHEEL_SPEEDS == {-8, 0, 4, 8}

WheelFrames ==
  {[Quiet EXCEPT !.WHEEL_SPEED_FL = a, !.WHEEL_SPEED_FR = b,
                 !.WHEEL_SPEED_RL = c, !.WHEEL_SPEED_RR = d] :
     a \in WHEEL_SPEEDS, b \in WHEEL_SPEEDS, c \in WHEEL_SPEEDS, d \in WHEEL_SPEEDS}

InitWheel == InitWith({MakeCP(RAV4_TSS2, "torque", FALSE, FALSE, FALSE, FALSE)}, {NoFV}, {0})
NextWheel == \E f \in WheelFrames : update(f)
SpecWheel == InitWheel /\ [][NextWheel]_vars

(* ------------------------------------------------------------------ *)
(* Sessions that exercise the personality selector                     *)
(* ------------------------------------------------------------------ *)
PersonalityFVs ==
  {MakeFV(FALSE, FALSE, FALSE, FALSE, wheel, FALSE) : wheel \in BOOLEAN}

\* the UI either did not change the personality or changed it to 1
PersonalityFrames ==
  {[Quiet EXCEPT !.MAIN_ON = m, !.DISTANCE = b, !.DISTANCE_LINES = l,
                 !.personality_changed_via_ui = u[1], !.current_personality = u[2]] :
     m \in {0, 1}, b \in {0, 1}, l \in {1, 2},
     u \in {<<FALSE, 0>>, <<TRUE, 1>>}}

InitPersonality ==
  InitWith({MakeCP(RAV4_TSS2, "torque", FALSE, FALSE, FALSE, FALSE)}, PersonalityFVs, {0})
NextPersonality == \E f \in PersonalityFrames : update(f)
SpecPersonality == InitPersonality /\ [][NextPersonality]_vars

(* ------------------------------------------------------------------ *)
(* Sessions that exercise the lane-keep button                         *)
(* ------------------------------------------------------------------ *)
PRIUS_V == [tss2 |-> FALSE, radar_acc |-> FALSE, unsupported_dsu |-> FALSE, prius_v |-> TRUE]

\* the distance button is wired on both cars
LkasCPs == {MakeCP(RAV4_TSS2, "torque", FALSE, FALSE, FALSE, FALSE),
            MakeCP(PRIUS_V, "torque", FALSE, TRUE, FALSE, FALSE)}

LkasFVs == {MakeFV(lkas, cem, FALSE, FALSE, FALSE, FALSE) : lkas \in BOOLEAN, cem \in BOOLEAN}

LkasFrames ==
  {[Quiet EXCEPT !.MAIN_ON = m, !.LDA_ON_MESSAGE = a, !.SET_ME_X02 = b] :
     m \in {0, 1}, a \in {0, 1, 2}, b \in {0, 1}}

InitLkas == InitWith(LkasCPs, LkasFVs, {0})
NextLkas == \E f \in LkasFrames : update(f)
SpecLkas == InitLkas /\ [][NextLkas]_vars

\* every signal update() reads is in the frame
AllSignalsPresent(f) == (DOMAIN f.RSA1) \cup (DOMAIN f.RSA2) = SIGNS

\* C1 (as amended): on a car with the secondary sensor, a tick that runs the
\* validator and sees cruise become available leaves a recompute pending unless it
\* recomputes the offset itself; the offset is recomputed at most once for each
\* time cruise becomes available; and after such a tick the fault counter is 0
\* when the offset was recomputed in it, and at most 1 otherwise.
C1_RecomputeAtMostOncePerEdge ==
  CP.ZSS =>
    /\ hist.zss.recomputes <= 1
    /\ (probe.zss_recomputed => ~zss_compute)
    /\ (probe.zss_edge /\ ~probe.zss_recomputed => zss_compute)
    /\ (probe.zss_edge => zss_threshold_count \in {0, 1})
    /\ (probe.zss_edge /\ probe.zss_recomputed => zss_threshold_count = 0)

\* a second rising edge, after a period with one recompute, recomputes again and
\* leaves the counter at zero
C1_Witness ==
  /\ CP.ZSS /\ probe.zss_edge /\ probe.zss_recomputed
  /\ hist.zss.closed = 1 /\ hist.zss.recomputes = 1 /\ zss_threshold_count = 0

\* C1 as stated: after every completed tick in which cruise became available the
\* fault counter is zero, and every period between two such ticks saw exactly one
\* recompute of the offset.
C1_Original ==
  (CP.ZSS /\ status = "ok") =>
    /\ (probe.rising_edge => zss_threshold_count = 0)
    /\ hist.zss.closed \in {-1, 1}

\* C2: once the fault counter is at the cap, no later tick changes the counter,
\* the offset, the pending flag or the remembered cruise availability, and no
\* later tick puts a secondary-sensor candidate in the output angle.
C2_DisabledForever ==
  [][zss_threshold_count = ZSS_THRESHOLD_COUNT =>
       /\ zss_threshold_count' = ZSS_THRESHOLD_COUNT
       /\ UNCHANGED <<zss_angle_offset, zss_compute, zss_cruise_active_last>>
       /\ ~probe'.zss_ran /\ ~probe'.zss_applied
       /\ (status' = "ok" => ret'.steeringAngleDeg = probe'.primary)]_vars

\* a completed tick, after the cap, in which cruise became available
C2_Witness ==
  /\ zss_threshold_count = ZSS_THRESHOLD_COUNT /\ status = "ok"
  /\ probe.rising_edge /\ ~zss_cruise_active_last /\ cp.ZORRO_STEER # 0

\* C4 (as amended): after a completed tick that leaves the steering-angle-offset
\* filter uninitialized, the reported offset is zero and the output angle is the
\* raw primary angle, unless the secondary-sensor validator put its candidate
\* ZORRO_STEER - zss_angle_offset there, which is within ZSS_THRESHOLD of the raw
\* primary angle.
C4_NoBiasBeforeInitialized ==
  (status = "ok" /\ ~angle_offset.initialized) =>
    /\ ret.steeringAngleOffsetDeg = 0
    /\ probe.primary = RawSteeringAngle(cp)
    /\ IF probe.zss_applied
         THEN /\ CP.ZSS
              /\ ret.steeringAngleDeg = cp.ZORRO_STEER - zss_angle_offset
              /\ Abs(ret.steeringAngleDeg - RawSteeringAngle(cp)) <= ZSS_THRESHOLD
         ELSE ret.steeringAngleDeg = RawSteeringAngle(cp)

\* an accurate torque-sensor angle was seen, the filter is still uninitialized
\* because the primary angle is outside the envelope, and the raw angle is reported
C4_Witness ==
  /\ status = "ok" /\ accurate_steer_angle_seen /\ ~angle_offset.initialized
  /\ cp.TORQUE_STEER_ANGLE # 0 /\ ~probe.zss_applied
  /\ ret.steeringAngleDeg = RawSteeringAngle(cp) /\ ret.steeringAngleDeg # 0

\* C4 as stated: on every car, after a completed tick that leaves the filter
\* uninitialized the reported offset is zero and the output angle is the raw
\* primary angle.
C4_Original ==
  (status = "ok" /\ ~angle_offset.initialized) =>
    /\ ret.steeringAngleOffsetDeg = 0
    /\ ret.steeringAngleDeg = RawSteeringAngle(cp)

\* C3: with alternate-mode-via-button enabled, a hold that began at a zero press
\* counter and had cruise available in every tick up to its release emitted, when
\* it lasted CRUISE_LONG_PRESS ticks, one alternate-mode toggle and no personality
\* cycle, and when it lasted CRUISE_LONG_PRESS - 1 ticks, one personality cycle and
\* no toggle.
C3_PressLengths ==
  LET g == hist.gesture
  IN  (g.phase = "released" /\ g.clean /\ fv.experimental_mode_via_distance) =>
        /\ (g.ticks = CRUISE_LONG_PRESS => g.toggles = 1 /\ g.cycles = 0)
        /\ (g.ticks = CRUISE_LONG_PRESS - 1 => g.toggles = 0 /\ g.cycles = 1)

\* the release of a hold of exactly CRUISE_LONG_PRESS ticks
C3_Witness ==
  /\ hist.gesture.phase = "released" /\ hist.gesture.clean
  /\ fv.experimental_mode_via_distance
  /\ hist.gesture.ticks = CRUISE_LONG_PRESS /\ hist.gesture.toggles = 1
  /\ distance_pressed_counter = 0 /\ events = << >>

\* C5: in a tick whose lockout reading is not conclusive (TSS2 car whose ACC type
\* of this tick is not 1, or unsupported-DSU car that is not TSS2) the stored
\* low-speed-lockout flag keeps its value; in a conclusive tick it becomes
\* (LOW_SPEED_LOCKOUT = 2).
C5_LockoutSticky ==
  [][IF (CP.tss2 /\ acc_type' # 1) \/ (CP.unsupported_dsu /\ ~CP.tss2)
       THEN low_speed_lockout' = low_speed_lockout
       ELSE low_speed_lockout' = (cp'.LOW_SPEED_LOCKOUT = 2)]_vars

\* the flag, set by an earlier conclusive reading, survives a tick of ACC type 2
\* in which the signal does not read 2
C5_Witness ==
  /\ low_speed_lockout /\ CP.tss2 /\ acc_type = 2 /\ cp.LOW_SPEED_LOCKOUT = 0
  /\ status = "ok"

\* C6: a tick changes the traffic-sign cache only when the set of nine fields it
\* read differs from the cache, and a tick that reads the set the tick before it
\* read changes neither the cache nor the speed limit.
C6_CacheIdempotent ==
  [][/\ (traffic_signals' # traffic_signals => NewSignValues(cp') # traffic_signals)
     /\ (status = "ok" /\ status' = "ok" /\ NewSignValues(cp') = NewSignValues(cp)
           => traffic_signals' = traffic_signals /\ car_speed_limit' = car_speed_limit)
    ]_vars

\* a tick that read the cached set again, with a speed limit in force
C6_Witness ==
  /\ status = "ok" /\ ~probe.signs_changed
  /\ traffic_signals = NewSignValues(cp)
  /\ traffic_signals["TSGN1"] = 1 /\ traffic_signals["SPDVAL1"] = 100
  /\ car_speed_limit = 1562500

\* C7: the speed limit of a completed tick is SPDVAL1 converted from km/h when
\* the cached TSGN1 is 1 and the override is off, SPDVAL1 converted from mph when
\* TSGN1 is 36 or the override is on, and zero otherwise.
C7_SpeedLimit ==
  status = "ok" =>
    LET tsgn1   == Get(traffic_signals, "TSGN1")
        spdval1 == Get(traffic_signals, "SPDVAL1")
    IN  IF tsgn1 = 1 /\ ~fv.force_mph_dashboard
          THEN car_speed_limit * 18 = spdval1 * 5 * 56250       \* 5/18 m/s per km/h
        ELSE IF tsgn1 = 36 \/ fv.force_mph_dashboard
          THEN car_speed_limit * 125 = spdval1 * 1397 * 2250     \* 1397/3125 m/s per mph
        ELSE car_speed_limit = 0

\* the sign 36 with the value 55 gives 24.59 m/s
C7_Witness ==
  /\ status = "ok" /\ ~fv.force_mph_dashboard
  /\ Get(traffic_signals, "TSGN1") = 36 /\ Get(traffic_signals, "SPDVAL1") = 55
  /\ car_speed_limit = 1383030

\* C8 (as amended): with the override off, a cached TSGN1 that is neither 1 nor
\* 36 (an absent field included) gives the speed limit 0 whatever SPDVAL1 is, on
\* the empty cache too; with the override on, the limit of a completed tick is
\* SPDVAL1 converted from mph whatever TSGN1 is.
C8_NoSignNoLimit ==
  /\ calculate_speed_limit(<< >>, NoFV) = 0
  /\ ~SpeedLimitRaises(<< >>, NoFV)
  /\ (status = "ok" /\ Get(traffic_signals, "TSGN1") \notin {1, 36}) =>
        IF fv.force_mph_dashboard
          THEN car_speed_limit = Get(traffic_signals, "SPDVAL1") * MPH_TO_MS
          ELSE car_speed_limit = 0

\* TSGN1 is absent, SPDVAL1 is 100, the override is off and the limit is 0
C8_Witness ==
  /\ status = "ok" /\ ~fv.force_mph_dashboard
  /\ "TSGN1" \notin DOMAIN cp.RSA1
  /\ Get(traffic_signals, "TSGN1") = None /\ Get(traffic_signals, "SPDVAL1") = 100
  /\ car_speed_limit = 0

\* C8 as stated: a cached TSGN1 that is neither 1 nor 36 gives the speed limit 0,
\* whatever SPDVAL1 and the override are.
C8_Original ==
  (status = "ok" /\ Get(traffic_signals, "TSGN1") \notin {1, 36}) => car_speed_limit = 0

\* C9: a tick whose frame carries every signal update() reads completes.
C9_Original ==
  AllSignalsPresent(cp) => status \in {"init", "ok"}

\* C10: the fault flags of a completed tick are a function of this tick's codes:
\* temporary iff LKA_STATE is in {0,9,11,21,25} or, in angle mode, LTA_STATE is;
\* permanent iff LKA_STATE is in {3,17} or, in angle mode, LTA_STATE is.
C10_FaultLookup ==
  status = "ok" =>
    LET angle == CP.steerControlType = "angle"
    IN  /\ ret.steerFaultTemporary <=>
             (cp.LKA_STATE \in {0, 9, 11, 21, 25}
                \/ (angle /\ cp.LTA_STATE \in {0, 9, 11, 21, 25}))
        /\ ret.steerFaultPermanent <=>
             (cp.LKA_STATE \in {3, 17} \/ (angle /\ cp.LTA_STATE \in {3, 17}))

\* torque mode: LTA_STATE reports a fault, LKA_STATE does not, no flag is set
C10_Witness ==
  /\ status = "ok" /\ CP.steerControlType = "torque"
  /\ cp.LTA_STATE = 9 /\ cp.LKA_STATE = 1
  /\ ~ret.steerFaultTemporary /\ ~ret.steerFaultPermanent

\* C11: after a completed tick whose four wheel speeds are one value v, the raw
\* vehicle speed is v and the standstill flag is set exactly when |v| < 1e-3 m/s.
C11_EqualWheels ==
  LET v == cp.WHEEL_SPEED_FL
  IN  (/\ status = "ok"
       /\ cp.WHEEL_SPEED_FR = v /\ cp.WHEEL_SPEED_RL = v /\ cp.WHEEL_SPEED_RR = v) =>
        /\ ret.vEgoRaw = v
        /\ ret.standstill <=> (-8 < v /\ v < 8)

\* four wheels at exactly 1e-3 m/s: the speed is 1e-3 and the car is not standing
C11_Witness ==
  /\ status = "ok" /\ cp.WHEEL_SPEED_FL = 8 /\ cp.WHEEL_SPEED_FR = 8
  /\ cp.WHEEL_SPEED_RL = 8 /\ cp.WHEEL_SPEED_RR = 8
  /\ ret.vEgoRaw = 8 /\ ~ret.standstill

\* C12: from the first held tick of a hold of the distance button to its release,
\* whatever the ticks in which cruise was not available, the toggle tied to
\* counter = CRUISE_LONG_PRESS was emitted in at most one tick and the
\* traffic-assist toggle tied to counter = 5 * CRUISE_LONG_PRESS in at most one.
C12_OncePerHold ==
  hist.gesture.phase \in {"held", "released"} =>
    hist.gesture.long <= 1 /\ hist.gesture.traffic <= 1

\* a hold that lost cruise for some ticks and crossed both thresholds
C12_Witness ==
  /\ hist.gesture.phase = "held" /\ ~hist.gesture.clean
  /\ hist.gesture.ticks > distance_pressed_counter
  /\ distance_pressed_counter = 5 * CRUISE_LONG_PRESS
  /\ hist.gesture.long = 1 /\ hist.gesture.traffic = 1

\* C13: a hold that began at a zero press counter, had cruise available in every
\* tick and reached 5 * CRUISE_LONG_PRESS ticks with traffic-assist toggling
\* enabled emitted exactly one traffic-assist toggle and an even number of
\* alternate-mode toggles, whatever the alternate-mode-via-button flag.
C13_Original ==
  LET g == hist.gesture
  IN  (/\ g.phase = "held" /\ g.clean /\ fv.traffic_mode
       /\ g.ticks = 5 * CRUISE_LONG_PRESS) =>
        g.traffic = 1 /\ g.toggles \in {0, 2}

\* C14: in a completed tick that enters with the secondary sensor fitted and the
\* fault counter below the cap, with candidate = ZORRO_STEER - zss_angle_offset
\* (the offset as the tick leaves it) and the counter taken after the reset a
\* cruise rising edge makes: either |primary - candidate| > 4, the counter grows by
\* exactly 1 and the output angle is the primary corrected angle, or the output
\* angle is the candidate and the counter does not grow.
C14_ExactlyOneOutcome ==
  [][(CP.ZSS /\ zss_threshold_count < 10 /\ status' = "ok") =>
       LET candidate == cp'.ZORRO_STEER - zss_angle_offset'
           primary   == probe'.primary
           base      == IF cp'.MAIN_ON # 0 /\ ~zss_cruise_active_last
                          THEN 0 ELSE zss_threshold_count
       IN  IF primary - candidate > 4 \/ candidate - primary > 4
             THEN /\ zss_threshold_count' = base + 1
                  /\ ret'.steeringAngleDeg = primary
             ELSE /\ zss_threshold_count' = base
                  /\ ret'.steeringAngleDeg = candidate]_vars

\* a third diverging tick in a row: the candidate is off by more than 4 and the
\* primary angle is reported
C14_Witness ==
  /\ status = "ok" /\ probe.zss_ran /\ ~probe.zss_applied /\ ~probe.zss_edge
  /\ zss_threshold_count = 3 /\ ret.steeringAngleDeg = probe.primary
  /\ cp.ZORRO_STEER - zss_angle_offset - probe.primary > 4

\* C15: a completed tick that leaves the secondary-sensor offset not established
\* (cruise has not become available since start-up, so no offset was ever
\* computed, or a recompute is still pending) does not raise the fault counter.
C15_Original ==
  [][(CP.ZSS /\ status' = "ok" /\ (~hist'.zss.edge_seen \/ zss_compute')) =>
       zss_threshold_count' <= zss_threshold_count]_vars

\* C16: a tick flips the simulated distance-button flag only with
\* personalities-via-wheel enabled, cruise available and the displayed personality
\* DISTANCE_LINES - 1 different from the confirmed one; a tick in which the two match
\* marks the profile restored and does not flip the flag; and a restored profile
\* becomes not restored only in a tick with a short-press release of the distance
\* button or a UI personality change, so that no tick in between flips the flag.
C16_FlipOnlyWhileDifferent ==
  [][LET flipped == distance_button' # distance_button
         gate    == fv.personalities_via_wheel /\ cp'.MAIN_ON # 0
         match   == cp'.DISTANCE_LINES - 1 = previous_personality_profile'
     IN  /\ flipped => gate /\ ~match /\ ~profile_restored'
         /\ (gate /\ match /\ status' = "ok") => ~flipped /\ profile_restored'
         /\ (profile_restored /\ ~profile_restored') =>
               \/ \E i \in DOMAIN events' : events'[i] = "distance:distance_button_function"
               \/ cp'.personality_changed_via_ui
         /\ (profile_restored /\ profile_restored') => ~flipped]_vars

\* the flag was flipped an odd number of times while the display lagged behind a
\* personality confirmed by the UI, and this tick found the two matching
C16_Witness ==
  /\ status = "ok" /\ fv.personalities_via_wheel /\ cp.MAIN_ON = 1
  /\ ~cp.personality_changed_via_ui /\ events = << >>
  /\ previous_personality_profile = 1 /\ personality_profile = 1
  /\ profile_restored /\ distance_button

\* C17: accurate_steer_angle_seen never goes back to false; a tick in which the
\* flag is set, |STEER_ANGLE + STEER_FRACTION| < 90, |STEER_RATE| < 100 and the bus
\* is valid feeds the filter, which is initialized afterwards; every other tick
\* leaves the filter's value and its initialized flag as they were.
C17_FilterEnvelope ==
  [][/\ accurate_steer_angle_seen => accurate_steer_angle_seen'
     /\ LET primary == cp'.STEER_ANGLE + cp'.STEER_FRACTION
             rate    == cp'.STEER_RATE
             inside  == /\ accurate_steer_angle_seen'
                        /\ -90 < primary /\ primary < 90
                        /\ -100 < rate /\ rate < 100
                        /\ cp'.can_valid
         IN  IF inside THEN angle_offset'.initialized
                       ELSE angle_offset' = angle_offset]_vars

\* an initialized filter with a non-zero value, after a tick at a rate of exactly 100
C17_Witness ==
  /\ accurate_steer_angle_seen /\ angle_offset.initialized /\ angle_offset.x # 0
  /\ cp.STEER_RATE = 100 /\ cp.can_valid /\ cp.STEER_ANGLE = 2
  /\ cp.TORQUE_STEER_ANGLE = 5 /\ cp.STEER_ANGLE_INITIALIZING = 0
  /\ angle_offset.x # cp.TORQUE_STEER_ANGLE - RawSteeringAngle(cp)

\* C18: with the SMART_DSU flag, on a variant that is not TSS2, or with the radar
\* disabled, a tick leaves the stored ACC type as it was, which is the initial 1;
\* otherwise the stored ACC type after the tick is this tick's ACC_TYPE, read from
\* the camera bus on TSS2 variants without radar ACC and from the main bus on the
\* others.
C18_AccTypeKept ==
  [][IF CP.SMART_DSU \/ ~CP.tss2 \/ CP.DISABLE_RADAR
       THEN acc_type' = acc_type /\ acc_type' = 1
       ELSE acc_type' = (IF CP.tss2 /\ ~CP.radar_acc THEN cp'.CAM_ACC_TYPE
                                                     ELSE cp'.ACC_TYPE)]_vars

\* a TSS2 car with a smart DSU whose buses both report ACC type 2
C18_Witness ==
  /\ status = "ok" /\ CP.SMART_DSU /\ CP.tss2 /\ ~CP.DISABLE_RADAR
  /\ cp.ACC_TYPE = 2 /\ cp.CAM_ACC_TYPE = 2 /\ acc_type = 1

\* C19: a tick in which cruise is not available leaves the press counter and the
\* previous-press flag as they were and emits no personality-cycle, alternate-mode
\* or traffic-assist event, whatever the distance button reads.
C19_TrackerGated ==
  [][cp'.MAIN_ON = 0 =>
       /\ distance_pressed_counter' = distance_pressed_counter
       /\ distance_previously_pressed' = distance_previously_pressed
       /\ \A i \in DOMAIN events' :
            events'[i] \notin {"distance:distance_button_function",
                               "distance:update_cestatus_distance",
                               "distance:update_experimental_mode",
                               "traffic:update_traffic_mode",
                               "traffic:update_cestatus_distance",
                               "traffic:update_experimental_mode"}]_vars

\* the button is held in a tick without cruise, one tick short of the long-press
\* threshold, and the hold has lasted longer than the counter tells
C19_Witness ==
  /\ status = "ok" /\ cp.MAIN_ON = 0 /\ cp.DISTANCE = 1 /\ CP.tss2
  /\ fv.experimental_mode_via_distance
  /\ distance_pressed_counter = CRUISE_LONG_PRESS - 1 /\ distance_previously_pressed
  /\ hist.gesture.phase = "held" /\ hist.gesture.ticks > CRUISE_LONG_PRESS
  /\ hist.gesture.long = 0 /\ events = << >>

\* C20: a tick emits a lane-keep toggle only when the feature flag is set, cruise
\* is available, the car is not the excluded variant, the button reads pressed in
\* this tick and was recorded as not pressed; and from the first tick of a hold of
\* the button on, whatever the ticks without cruise in between, at most one such
\* toggle is emitted.
C20_LkasPressEdge ==
  [][/\ (\E i \in DOMAIN events' :
            events'[i] \in {"lkas:update_cestatus_lkas", "lkas:update_experimental_mode"})
          => /\ fv.experimental_mode_via_lkas /\ cp'.MAIN_ON # 0 /\ ~CP.prius_v
             /\ (cp'.LDA_ON_MESSAGE = 1 \/ cp'.SET_ME_X02 = 1)
             /\ ~lkas_previously_pressed
     /\ hist'.lkas.toggles <= 1]_vars

\* a hold that emitted its toggle, lost cruise, and has cruise again in a tick that
\* emits nothing
C20_Witness ==
  /\ status = "ok" /\ fv.experimental_mode_via_lkas /\ ~CP.prius_v
  /\ cp.MAIN_ON = 1 /\ cp.LDA_ON_MESSAGE = 1
  /\ hist.lkas.held /\ hist.lkas.lost /\ hist.lkas.toggles = 1
  /\ lkas_previously_pressed /\ events = << >>

\* C21: the fault counter is always in 0..10; a tick leaves it as it was or adds
\* exactly 1, except a tick in which cruise becomes available, which may reset it
\* to 0 before the tick's own fault is counted (leaving 0 or 1); and a completed
\* tick without such an edge in which the candidate is within 4 of the primary
\* angle leaves the counter as it was.
C21_CounterRange ==
  [][LET rising    == cp'.MAIN_ON # 0 /\ cp.MAIN_ON = 0
         candidate == cp'.ZORRO_STEER - zss_angle_offset'
         primary   == probe'.primary
     IN  /\ zss_threshold_count \in 0..10 /\ zss_threshold_count' \in 0..10
         /\ \/ zss_threshold_count' = zss_threshold_count
            \/ zss_threshold_count' = zss_threshold_count + 1
            \/ rising /\ zss_threshold_count' \in {0, 1}
         /\ (/\ status' = "ok" /\ ~rising
             /\ primary - candidate <= 4 /\ candidate - primary <= 4)
              => zss_threshold_count' = zss_threshold_count]_vars

\* the tick that takes the counter to the cap, after an earlier reset, and a later
\* agreeing reading that does not bring it down
C21_Witness ==
  /\ CP.ZSS /\ status = "ok" /\ hist.zss.edge_seen /\ zss_threshold_count = 10
  /\ ~probe.zss_ran /\ cp.ZORRO_STEER - zss_angle_offset = probe.primary

====
